---------------------------- MODULE Spec2Model ----------------------------
(***************************************************************************)
(* A model of the Pizza actor, its mission state and the services it uses  *)
(* (LEGO1/lego/legoomni): the tickle scheduler, the game state registry,   *)
(* the save-file codec of PizzaMissionState and the path actor's           *)
(* animation-end handler.                                                  *)
(*                                                                         *)
(* The module holds five state machines over disjoint variables:           *)
(*   the tickle manager and its clients            (SpecTickle)            *)
(*   PizzaMissionState::Serialize over a LegoFile  (SpecSerialize)         *)
(*   the state registry and the Pizza actors       (SpecRegistry,          *)
(*                                                  SpecGame, SpecPizza)   *)
(*   PizzaMissionState::GetState on its own        (SpecLookup)            *)
(*   the path actor's HandleAnimationEnd           (SpecActor)             *)
(* In each specification the variables of the other machines stay at       *)
(* their initial value. The tickle manager, the registry, the Entry codec  *)
(* and the path actor are not part of the files modelled here; they        *)
(* follow the design document.                                             *)
(***************************************************************************)
EXTENDS Integers, Sequences, FiniteSets, TLC

\* ------------------------------------------------------------------ values

\* The null pointer.
NULL == 0

\* MxResult codes.
SUCCESS == 0

FAILURE == -1

\* The capacity of PizzaMissionState::m_state, the bound of every loop over it.
NumEntries == 5

\* ------------------------------------------------------------------ bounds

\* Tickle clients (Pizza actors and others) that exist in a session.
NumClients == 3

\* A per-pass tick count is kept up to this value ("more than once").
TickCap == 2

Clients == 1..NumClients

\* --------------------------------------------------------------- variables

VARIABLES
    \* tickle manager
    clients,        \* the registered clients, in registration order
    alive,          \* the client objects that have not been destroyed
    inPass,         \* a TickleAll pass is running
    pos,            \* entries of `clients' the running pass has visited
    tickCount,      \* history: ticks each client got in the current/last pass
    wholePass,      \* history: clients registered since the pass began
    unregistered,   \* history: clients unregistered (or destroyed) and not registered again
    tickedGone,     \* history: a tick went to an unregistered or destroyed client
    selfRemoved,    \* history: in this pass a client left from inside its own hook
    tickResult      \* the result of the last Tickle hook

tickVars == <<clients, alive, inPass, pos, tickCount, wholePass, unregistered,
              tickedGone, selfRemoved, tickResult>>

VARIABLES
    \* PizzaMissionState::Serialize over a LegoFile
    saved,          \* m_state[0..4] of the mission state that is saved
    loaded,         \* m_state[0..4] of the fresh mission state that is loaded
    file,           \* the LegoFile: its mode, its bytes, its read position
    ser_obj,        \* the object Serialize runs on: "saved" or "loaded"
    ser_pc,         \* where Serialize is: idle, read, write, ret, done
    ser_i,          \* the loop counter i
    ser_ret,        \* the result Serialize returned
    ser_log,        \* history: the calls Serialize made, in order
    ser_start,      \* history: the stream length / read position at the call
    ser_short,      \* history: a ReadFromFile of this call found too few bytes
    origin,         \* history: the entries the file's bytes were written from
    intact          \* history: the file holds every byte that was written

serVars == <<saved, loaded, file, ser_obj, ser_pc, ser_i, ser_ret, ser_log,
             ser_start, ser_short, origin, intact>>

VARIABLES
    \* game state registry and Pizza actors
    registry,       \* the registered states: <<[name, obj], ...>> in creation order
    heap,           \* the state objects allocated so far; an object's id is its index
    actors,         \* the Pizza actors' members
    g_isleFlags,    \* the set bits of the global g_isleFlags
    skateboard,     \* what m_world->Find returns for the skateboard actor
    memory,         \* what the memory the next mission state is allocated in holds
    crashed,        \* a write went through a null pointer
    alreadyExists,  \* history: the registry reported AlreadyExists
    firstCreated,   \* history: per name, the object the first CreateState made
    created,        \* history: the last Pizza::Create call
    lookup,         \* history: the last GetState(name) a caller made
    fun             \* history: the last Pizza::FUN_10038220 call

gameVars == <<registry, heap, actors, g_isleFlags, skateboard, memory, crashed, alreadyExists,
              firstCreated, created, lookup, fun>>

VARIABLES
    \* PizzaMissionState::GetState on its own
    gs_state,       \* m_state[0..4] of the mission state asked
    gs              \* history: the last GetState(p_id) call

lookupVars == <<gs_state, gs>>

VARIABLES
    \* path actor
    pathActor,      \* its state (Idle, Following), the animations it started, its path progress
    handled         \* history: the last HandleAnimationEnd call

actorVars == <<pathActor, handled>>

vars == <<tickVars, serVars, gameVars, lookupVars, actorVars>>

\* What each machine leaves alone.
TickFrame == UNCHANGED <<serVars, gameVars, lookupVars, actorVars>>

SerFrame == UNCHANGED <<tickVars, gameVars, lookupVars, actorVars>>

GameFrame == UNCHANGED <<tickVars, serVars, lookupVars, actorVars>>

LookupFrame == UNCHANGED <<tickVars, serVars, gameVars, actorVars>>

ActorFrame == UNCHANGED <<tickVars, serVars, gameVars, lookupVars>>


\* ---------------------------------------------------------- sequence help

Range(s) == {s[k] : k \in 1..Len(s)}

IndexOf(s, x) == CHOOSE k \in 1..Len(s) : s[k] = x

RemoveAt(s, k) == SubSeq(s, 1, k - 1) \o SubSeq(s, k + 1, Len(s))

Min(a, b) == IF a < b THEN a ELSE b

\* =========================================================================
\* Tickle manager
\* =========================================================================

\* Register(client): adds the client at the end of the list; registering a
\* registered client changes nothing.
RegisterClient(list, c) ==
    IF c \in Range(list) THEN list ELSE Append(list, c)

\* Unregister(client): the list without the client, later entries shifted down.
UnregisterClient(list, c) ==
    IF c \in Range(list) THEN RemoveAt(list, IndexOf(list, c)) ELSE list

\* The pass's position after Unregister(client): an entry removed at or before
\* the position moves the position down with the entries that shift.
PosAfterUnregister(list, p, c) ==
    IF c \in Range(list) /\ IndexOf(list, c) <= p THEN p - 1 ELSE p

\* Pizza::~Pizza, as a mutant: the destructor forgets to unregister.
Pizza_dtor_NoUnregister(list, c) == list

\* Pizza::~Pizza: TickleManager()->UnregisterClient(this).
Pizza_dtor(list, c) == UnregisterClient(list, c)

\* Pizza::Tickle: a stub that returns SUCCESS and changes nothing.
Pizza_Tickle == SUCCESS

InitTickle ==
    /\ clients = <<>>
    /\ alive = Clients
    /\ inPass = FALSE
    /\ pos = 0
    /\ tickCount = [c \in Clients |-> 0]
    /\ wholePass = {}
    /\ unregistered = {}
    /\ tickedGone = FALSE
    /\ selfRemoved = FALSE
    /\ tickResult = SUCCESS

\* The hook that is running is c's own: the pass's last visited entry is c.
InOwnHook(c) == inPass /\ pos >= 1 /\ pos <= Len(clients) /\ clients[pos] = c

\* Register(c), between passes or from inside a Tickle hook.
Register(c) ==
    /\ c \in alive
    /\ clients' = RegisterClient(clients, c)
    /\ unregistered' = unregistered \ {c}
    /\ UNCHANGED <<alive, inPass, pos, tickCount, wholePass, tickedGone,
                   selfRemoved, tickResult>>
    /\ TickFrame

\* Unregister(c), between passes or from inside a Tickle hook (c may be the
\* client whose hook is running).
Unregister(c) ==
    /\ c \in alive
    /\ clients' = UnregisterClient(clients, c)
    /\ pos' = IF inPass THEN PosAfterUnregister(clients, pos, c) ELSE pos
    /\ wholePass' = wholePass \ {c}
    /\ unregistered' = unregistered \cup {c}
    /\ selfRemoved' = (selfRemoved \/ InOwnHook(c))
    /\ UNCHANGED <<alive, inPass, tickCount, tickedGone, tickResult>>
    /\ TickFrame

\* delete c: the destructor runs, then the object is gone.
Destroy(c) ==
    /\ c \in alive
    /\ clients' = Pizza_dtor(clients, c)
    /\ pos' = IF inPass THEN PosAfterUnregister(clients, pos, c) ELSE pos
    /\ alive' = alive \ {c}
    /\ wholePass' = wholePass \ {c}
    /\ unregistered' = unregistered \cup {c}
    /\ selfRemoved' = (selfRemoved \/ InOwnHook(c))
    /\ UNCHANGED <<inPass, tickCount, tickedGone, tickResult>>
    /\ TickFrame

\* TickleAll() begins a pass over the list.
TickleAllBegin ==
    /\ ~inPass
    /\ inPass' = TRUE
    /\ pos' = 0
    /\ tickCount' = [c \in Clients |-> 0]
    /\ wholePass' = Range(clients)
    /\ selfRemoved' = FALSE
    /\ UNCHANGED <<clients, alive, unregistered, tickedGone, tickResult>>
    /\ TickFrame

\* The pass calls the Tickle hook of the next entry.
TickleStep ==
    /\ inPass
    /\ pos < Len(clients)
    /\ LET c == clients[pos + 1] IN
        /\ pos' = pos + 1
        /\ tickCount' = [tickCount EXCEPT ![c] = Min(@ + 1, TickCap)]
        /\ tickedGone' = (tickedGone \/ c \in unregistered \/ c \notin alive)
        /\ tickResult' = Pizza_Tickle
    /\ UNCHANGED <<clients, alive, inPass, wholePass, unregistered, selfRemoved>>
    /\ TickFrame

\* The pass has visited every entry and ends.
TickleAllEnd ==
    /\ inPass
    /\ pos >= Len(clients)
    /\ inPass' = FALSE
    /\ UNCHANGED <<clients, alive, pos, tickCount, wholePass, unregistered,
                   tickedGone, selfRemoved, tickResult>>
    /\ TickFrame

NextTickle ==
    \/ \E c \in Clients : Register(c)
    \/ \E c \in Clients : Unregister(c)
    \/ \E c \in Clients : Destroy(c)
    \/ TickleAllBegin
    \/ TickleStep
    \/ TickleAllEnd

\* =========================================================================
\* PizzaMissionState::Serialize
\* =========================================================================

EntryIndex == 0..(NumEntries - 1)

\* A 32-bit field, kept as its two 16-bit halves.
U32(hi, lo) == [hi |-> hi, lo |-> lo]

\* 0x80000000, the value Pizza writes to m_unk0x10 and m_unk0x90.
Unset32 == U32(32768, 0)

\* PizzaMissionState::Entry: the id GetState compares and the field
\* FUN_10038220 writes.
ZeroEntry == [m_id |-> 0, m_unk0x10 |-> U32(0, 0)]

\* Field values the saved entries are drawn from.
EntryVals ==
    { [m_id |-> 255, m_unk0x10 |-> Unset32],
      [m_id |-> 2, m_unk0x10 |-> U32(258, 772)] }

\* What the memory of a freshly allocated mission state may hold: the
\* constructor is a stub and sets no entry.
FreshEntryVals == { ZeroEntry, [m_id |-> 205, m_unk0x10 |-> U32(52685, 52685)] }

\* Memory that held another record before it was freed.
StaleState ==
    [i \in EntryIndex |-> [m_id |-> (i + 2) % 3, m_unk0x10 |-> U32(i, 65535)]]

FreshStates == { [i \in EntryIndex |-> g] : g \in FreshEntryVals } \cup { StaleState }

\* The bytes of a field, least significant first, with its declared width.
EncodeU8(v) == << v % 256 >>

EncodeU16(v) == << v % 256, (v \div 256) % 256 >>

EncodeU32(v) == EncodeU16(v.lo) \o EncodeU16(v.hi)

DecodeU16(b) == b[1] + 256 * b[2]

DecodeU32(b) == U32(DecodeU16(SubSeq(b, 3, 4)), DecodeU16(SubSeq(b, 1, 2)))

\* Entry::WriteToFile: the entry's fields in order, no padding, no delimiter.
Entry_WriteToFile(e) == EncodeU8(e.m_id) \o EncodeU32(e.m_unk0x10)

EntryBytes == Len(Entry_WriteToFile(ZeroEntry))

\* Entry::ReadFromFile at read position rpos: the entry, the new position and
\* the result. A stream that ends before the entry does leaves the entry zero.
Entry_ReadFromFile(data, rpos) ==
    IF Len(data) - rpos < EntryBytes
    THEN [entry |-> ZeroEntry, rpos |-> Len(data), ret |-> FAILURE]
    ELSE [entry |-> [m_id |-> data[rpos + 1],
                     m_unk0x10 |-> DecodeU32(SubSeq(data, rpos + 2, rpos + EntryBytes))],
          rpos |-> rpos + EntryBytes,
          ret |-> SUCCESS]

\* LegoFile::IsReadMode, LegoFile::IsWriteMode.
IsReadMode(f) == f.mode = "read"

IsWriteMode(f) == f.mode = "write"

\* LegoState::Serialize: the base class adds nothing to the record.
LegoState_Serialize(f) == f

\* The read loop's condition, for (MxS16 i = 0; i < 5; i++).
ReadLoopCond(i) == i < NumEntries

\* The write loop, as a mutant: it stops one entry early.
WriteLoopCond_Short(i) == i < NumEntries - 1

\* The write loop's condition, for (MxS16 i = 0; i < 5; i++).
WriteLoopCond(i) == i < NumEntries

\* The loops' step, as a mutant: every other entry is skipped.
LoopStep_Skip(i) == i + 2

\* The loops' step, i++.
LoopStep(i) == i + 1

\* The result of Serialize.
SerializeResult == SUCCESS

Ev(op, i) == [op |-> op, i |-> i]

Obj(o) == IF o = "saved" THEN saved ELSE loaded

\* The state before any Serialize call: the saved state holds populated
\* entries, the loaded state is fresh, the file is open and empty.
InitSerialize ==
    /\ saved \in [EntryIndex -> EntryVals]
    /\ loaded \in FreshStates
    /\ file \in { [mode |-> m, data |-> <<>>, rpos |-> 0] : m \in {"write", "other"} }
    /\ ser_obj = "saved"
    /\ ser_pc = "idle"
    /\ ser_i = 0
    /\ ser_ret = SUCCESS
    /\ ser_log = <<>>
    /\ ser_start = 0
    /\ ser_short = FALSE
    /\ origin = [i \in EntryIndex |-> ZeroEntry]
    /\ intact = FALSE

IdleSerialize ==
    /\ saved = [i \in EntryIndex |-> ZeroEntry]
    /\ loaded = [i \in EntryIndex |-> ZeroEntry]
    /\ file = [mode |-> "other", data |-> <<>>, rpos |-> 0]
    /\ ser_obj = "saved"
    /\ ser_pc = "idle"
    /\ ser_i = 0
    /\ ser_ret = SUCCESS
    /\ ser_log = <<>>
    /\ ser_start = 0
    /\ ser_short = FALSE
    /\ origin = [i \in EntryIndex |-> ZeroEntry]
    /\ intact = FALSE

\* Serialize(p_file) is called on the saved state (to save it) or on the loaded
\* state: the base class runs, then the mode selects the loop.
SerializeCall(o) ==
    /\ ser_pc = "idle"
    /\ ser_obj' = o
    /\ file' = LegoState_Serialize(file)
    /\ ser_log' = << Ev("base", -1) >>
    /\ ser_i' = 0
    /\ ser_start' = IF IsReadMode(file) THEN file.rpos ELSE Len(file.data)
    /\ ser_short' = FALSE
    /\ ser_pc' = IF IsReadMode(file) THEN "read"
                 ELSE IF IsWriteMode(file) THEN "write" ELSE "ret"
    /\ origin' = IF IsWriteMode(file) THEN Obj(o) ELSE origin
    /\ intact' = IF IsWriteMode(file) THEN TRUE ELSE intact
    /\ UNCHANGED <<saved, loaded, ser_ret>>
    /\ SerFrame

\* One turn of the read loop: m_state[i].ReadFromFile(p_file).
SerializeRead ==
    /\ ser_pc = "read"
    /\ IF ReadLoopCond(ser_i)
       THEN LET r == Entry_ReadFromFile(file.data, file.rpos) IN
            /\ IF ser_obj = "saved"
               THEN saved' = [saved EXCEPT ![ser_i] = r.entry] /\ UNCHANGED loaded
               ELSE loaded' = [loaded EXCEPT ![ser_i] = r.entry] /\ UNCHANGED saved
            /\ file' = [file EXCEPT !.rpos = r.rpos]
            /\ ser_short' = (ser_short \/ r.ret # SUCCESS)
            /\ ser_log' = Append(ser_log, Ev("read", ser_i))
            /\ ser_i' = LoopStep(ser_i)
            /\ UNCHANGED ser_pc
       ELSE /\ ser_pc' = "ret"
            /\ UNCHANGED <<saved, loaded, file, ser_short, ser_log, ser_i>>
    /\ UNCHANGED <<ser_obj, ser_ret, ser_start, origin, intact>>
    /\ SerFrame

\* One turn of the write loop: m_state[i].WriteToFile(p_file).
SerializeWrite ==
    /\ ser_pc = "write"
    /\ IF WriteLoopCond(ser_i)
       THEN /\ file' = [file EXCEPT !.data = @ \o Entry_WriteToFile(Obj(ser_obj)[ser_i])]
            /\ ser_log' = Append(ser_log, Ev("write", ser_i))
            /\ ser_i' = LoopStep(ser_i)
            /\ UNCHANGED ser_pc
       ELSE /\ ser_pc' = "ret"
            /\ UNCHANGED <<file, ser_log, ser_i>>
    /\ UNCHANGED <<saved, loaded, ser_obj, ser_ret, ser_start, ser_short, origin, intact>>
    /\ SerFrame

\* return SUCCESS.
SerializeReturn ==
    /\ ser_pc = "ret"
    /\ ser_ret' = SerializeResult
    /\ ser_pc' = "done"
    /\ UNCHANGED <<saved, loaded, file, ser_obj, ser_i, ser_log, ser_start,
                   ser_short, origin, intact>>
    /\ SerFrame

\* The caller opens the save file again to load it: in read mode at its start,
\* holding all the bytes written or (a damaged save file) only the first n.
OpenForRead(n) ==
    /\ ser_pc = "done"
    /\ IsWriteMode(file)
    /\ n <= Len(file.data)
    /\ file' = [mode |-> "read", data |-> SubSeq(file.data, 1, n), rpos |-> 0]
    /\ intact' = (intact /\ n = Len(file.data))
    /\ ser_pc' = "idle"
    /\ UNCHANGED <<saved, loaded, ser_obj, ser_i, ser_ret, ser_log, ser_start,
                   ser_short, origin>>
    /\ SerFrame

\* The caller passes a file that is open for neither reading nor writing.
OpenOther ==
    /\ ser_pc = "done"
    /\ IsWriteMode(file)
    /\ file' = [file EXCEPT !.mode = "other", !.rpos = 0]
    /\ ser_pc' = "idle"
    /\ UNCHANGED <<saved, loaded, ser_obj, ser_i, ser_ret, ser_log, ser_start,
                   ser_short, origin, intact>>
    /\ SerFrame

\* The caller creates the save file anew to save again.
OpenForWrite ==
    /\ ser_pc = "done"
    /\ ~IsWriteMode(file)
    /\ file' = [mode |-> "write", data |-> <<>>, rpos |-> 0]
    /\ intact' = FALSE
    /\ ser_pc' = "idle"
    /\ UNCHANGED <<saved, loaded, ser_obj, ser_i, ser_ret, ser_log, ser_start,
                   ser_short, origin>>
    /\ SerFrame

NextSerialize ==
    \/ \E o \in {"saved", "loaded"} : SerializeCall(o)
    \/ SerializeRead
    \/ SerializeWrite
    \/ SerializeReturn
    \/ \E n \in 0..(NumEntries * EntryBytes) : OpenForRead(n)
    \/ OpenOther
    \/ OpenForWrite


\* =========================================================================
\* Game state registry (LegoGameState) and Pizza
\* =========================================================================

\* Pizza actors of a session.
NumActors == 2

\* The largest actor id GameState()->GetActorId() reports (0: no actor).
MaxActorId == 2

Actors == 1..NumActors

ActorIds == 0..MaxActorId

StateNames == {"PizzaMissionState", "Act1State", "HelicopterState"}

\* The bits of g_isleFlags.
IsleFlags == {"c_playMusic", "c_unk0x01", "c_unk0x02"}

\* m_state + i for no i: the entry pointer GetState returns when it finds none.
NoEntry == -1

\* The object world->Find returns for the skateboard, when the world holds one.
SkateBoardObj == 1

\* PizzaMissionState::PizzaMissionState is a stub: the object keeps what the
\* allocated memory held.
PizzaMissionState_ctor(fresh) ==
    [class |-> "PizzaMissionState", m_unk0x0c |-> fresh[0].m_id, m_unk0x018 |-> 0,
     m_state |-> fresh]

\* Any other state class: a default-initialized object.
LegoState_ctor(name) ==
    [class |-> name, m_unk0x0c |-> 0, m_unk0x018 |-> 0,
     m_state |-> [i \in EntryIndex |-> ZeroEntry]]

\* Pizza::Pizza.
Pizza_ctor ==
    [m_state |-> NULL, m_entry |-> NoEntry, m_skateboard |-> NULL,
     m_act1state |-> NULL, m_unk0x8c |-> -1, m_unk0x98 |-> 0, m_unk0x90 |-> Unset32]

\* The memory one entry read past the end of m_state would see.
PastTheEnd == ZeroEntry

\* m_state[i].m_id as the loop reads it.
IdAt(m, i) == IF i \in EntryIndex THEN m[i].m_id ELSE PastTheEnd.m_id

\* PizzaMissionState::GetState, as a mutant: the loop runs one entry too far.
GetStateLoopCond_OffByOne(i) == i <= NumEntries

\* The loop's condition, for (MxS16 i = 0; i < 5; i++).
GetStateLoopCond(i) == i < NumEntries

\* PizzaMissionState::GetState from index i on: the index of the entry it
\* returns (NoEntry for NULL) and the indices it has read.
RECURSIVE GetStateScan(_, _, _, _)
GetStateScan(m, p_id, i, reads) ==
    IF ~GetStateLoopCond(i) THEN [ret |-> NoEntry, reads |-> reads]
    ELSE IF IdAt(m, i) = p_id THEN [ret |-> i, reads |-> reads \cup {i}]
    ELSE GetStateScan(m, p_id, i + 1, reads \cup {i})

\* PizzaMissionState::GetState(p_id).
PizzaMissionState_GetState(m, p_id) == GetStateScan(m, p_id, 0, {})

\* The registry and what the calls on it have done: w.registry, w.heap,
\* w.exists (AlreadyExists was reported), w.first (the first object per name),
\* w.trace (the calls, in order).
Called(w, what) == [w EXCEPT !.trace = Append(@, what)]

\* LegoGameState::GetState(name): the state registered under name, or NULL.
GameState_GetState(reg, name) ==
    LET hits == {k \in 1..Len(reg) : reg[k].name = name} IN
    IF hits = {} THEN NULL
    ELSE reg[CHOOSE k \in hits : \A j \in hits : k <= j].obj

\* LegoGameState::CreateState(name), as a mutant: the new state replaces the
\* registry's entries instead of joining them.
GameState_CreateState_Replacing(w, name, fresh) ==
    LET obj == IF name = "PizzaMissionState" THEN PizzaMissionState_ctor(fresh)
               ELSE LegoState_ctor(name)
        id == Len(w.heap) + 1
    IN [w |-> [w EXCEPT !.heap = Append(@, obj),
                        !.registry = << [name |-> name, obj |-> id] >>,
                        !.first = [@ EXCEPT ![name] = IF @ = NULL THEN id ELSE @]],
        ret |-> id]

\* LegoGameState::CreateState(name): allocates a state of the class, registers
\* it under name and returns it; AlreadyExists (and NULL) when name is registered.
GameState_CreateState(w, name, fresh) ==
    IF GameState_GetState(w.registry, name) # NULL
    THEN [w |-> [w EXCEPT !.exists = TRUE], ret |-> NULL]
    ELSE LET obj == IF name = "PizzaMissionState" THEN PizzaMissionState_ctor(fresh)
                    ELSE LegoState_ctor(name)
             id == Len(w.heap) + 1
         IN [w |-> [w EXCEPT !.heap = Append(@, obj),
                             !.registry = Append(@, [name |-> name, obj |-> id]),
                             !.first = [@ EXCEPT ![name] = id]],
             ret |-> id]

\* state = GetState(name); if (state == NULL) state = CreateState(name);
GetOrCreate(w, name, fresh) ==
    LET w1 == Called(w, "GetState")
        got == GameState_GetState(w1.registry, name)
    IN IF got = NULL
       THEN GameState_CreateState(Called(w1, "CreateState"), name, fresh)
       ELSE [w |-> w1, ret |-> got]

\* Pizza::CreateState, as a mutant: the states are created without a lookup.
Pizza_CreateState_NoLookup(w, me, fresh) ==
    LET s1 == GameState_CreateState(Called(w, "CreateState"), "PizzaMissionState", fresh)
        s2 == GameState_CreateState(Called(s1.w, "CreateState"), "Act1State", fresh)
    IN [w |-> s2.w, me |-> [me EXCEPT !.m_state = s1.ret, !.m_act1state = s2.ret]]

\* Pizza::CreateState.
Pizza_CreateState(w, me, fresh) ==
    LET s1 == GetOrCreate(w, "PizzaMissionState", fresh)
        s2 == GetOrCreate(s1.w, "Act1State", fresh)
    IN [w |-> s2.w, me |-> [me EXCEPT !.m_state = s1.ret, !.m_act1state = s2.ret]]

\* Pizza::Create, as a mutant: the result of IsleActor::Create is not tested.
Pizza_Create_Unchecked(w, me, result, found, fresh) ==
    LET s == Pizza_CreateState(Called(w, "IsleActor::Create"), me, fresh)
    IN [w |-> Called(s.w, "Find"),
        me |-> [s.me EXCEPT !.m_skateboard = found],
        ret |-> result]

\* Pizza::Create: result is what IsleActor::Create returns, found what
\* m_world->Find returns.
Pizza_Create(w, me, result, found, fresh) ==
    LET w1 == Called(w, "IsleActor::Create") IN
    IF result = SUCCESS
    THEN LET s == Pizza_CreateState(w1, me, fresh)
         IN [w |-> Called(s.w, "Find"),
             me |-> [s.me EXCEPT !.m_skateboard = found],
             ret |-> result]
    ELSE [w |-> w1, me |-> me, ret |-> result]

World == [registry |-> registry, heap |-> heap, exists |-> alreadyExists,
          first |-> firstCreated, trace |-> <<>>]

NoCall == [actor |-> 0, result |-> SUCCESS, ret |-> SUCCESS, trace |-> <<>>,
           changed |-> FALSE]

NoLookup == [name |-> "", ret |-> NULL, first |-> NULL]

NoFun == [actor |-> 0, actorId |-> 0, entry |-> NoEntry, flagsBefore |-> {}]

InitGame ==
    /\ registry = <<>>
    /\ heap = <<>>
    /\ actors = [a \in Actors |-> Pizza_ctor]
    /\ g_isleFlags \in {IsleFlags, {"c_unk0x02"}}
    /\ skateboard \in {NULL, SkateBoardObj}
    /\ memory \in FreshStates
    /\ crashed = FALSE
    /\ alreadyExists = FALSE
    /\ firstCreated = [n \in StateNames |-> NULL]
    /\ created = NoCall
    /\ lookup = NoLookup
    /\ fun = NoFun

IdleGame ==
    /\ registry = <<>>
    /\ heap = <<>>
    /\ actors = [a \in Actors |-> Pizza_ctor]
    /\ g_isleFlags = {}
    /\ skateboard = NULL
    /\ memory = [i \in EntryIndex |-> ZeroEntry]
    /\ crashed = FALSE
    /\ alreadyExists = FALSE
    /\ firstCreated = [n \in StateNames |-> NULL]
    /\ created = NoCall
    /\ lookup = NoLookup
    /\ fun = NoFun

SetWorld(w) ==
    /\ registry' = w.registry
    /\ heap' = w.heap
    /\ alreadyExists' = w.exists
    /\ firstCreated' = w.first

\* The world creates actor a: Create(p_dsAction).
PizzaCreate(a, result) ==
    /\ ~crashed
    /\ LET r == Pizza_Create(World, actors[a], result, skateboard, memory) IN
        /\ SetWorld(r.w)
        /\ actors' = [actors EXCEPT ![a] = r.me]
        /\ created' = [actor |-> a, result |-> result, ret |-> r.ret,
                       trace |-> r.w.trace, changed |-> (r.me # actors[a])]
    /\ UNCHANGED <<g_isleFlags, skateboard, memory, crashed, lookup, fun>>
    /\ GameFrame

\* CreateState() is called on actor a once more.
PizzaCreateState(a) ==
    /\ ~crashed
    /\ LET r == Pizza_CreateState(World, actors[a], memory) IN
        /\ SetWorld(r.w)
        /\ actors' = [actors EXCEPT ![a] = r.me]
    /\ UNCHANGED <<g_isleFlags, skateboard, memory, crashed, created, lookup, fun>>
    /\ GameFrame

\* Another actor fetches its state by name and creates it when there is none
\* (Helicopter::CreateState and its like).
OtherCreateState(name) ==
    /\ ~crashed
    /\ SetWorld(GetOrCreate(World, name, memory).w)
    /\ UNCHANGED <<actors, g_isleFlags, skateboard, memory, crashed, created, lookup, fun>>
    /\ GameFrame

\* A caller creates a state without looking it up first: CreateState(name).
CreateStateCall(name) ==
    /\ ~crashed
    /\ SetWorld(GameState_CreateState(World, name, memory).w)
    /\ UNCHANGED <<actors, g_isleFlags, skateboard, memory, crashed, created, lookup, fun>>
    /\ GameFrame

\* A caller looks a state up: GameState()->GetState(name).
GetStateCall(name) ==
    /\ ~crashed
    /\ lookup' = [name |-> name, ret |-> GameState_GetState(registry, name),
                  first |-> firstCreated[name]]
    /\ UNCHANGED <<registry, heap, actors, g_isleFlags, skateboard, memory, crashed, alreadyExists,
                   firstCreated, created, fun>>
    /\ GameFrame

\* Pizza::FUN_10038220(p_objectId) on actor a, whose Create has succeeded;
\* actorId is what GameState()->GetActorId() returns. The statements run in
\* order up to the write through m_entry. With m_entry NULL that write is
\* undefined: it faults, or (faults = FALSE) it is lost and the rest runs.
FUN_10038220(a, actorId, faults) ==
    /\ ~crashed
    /\ actors[a].m_state # NULL
    /\ actors[a].m_act1state # NULL
    /\ LET me == actors[a]
           entry == PizzaMissionState_GetState(heap[me.m_state].m_state, actorId).ret
           h1 == [heap EXCEPT ![me.m_state].m_unk0x0c = 1,
                              ![me.m_act1state].m_unk0x018 = 3]
       IN
        /\ fun' = [actor |-> a, actorId |-> actorId, entry |-> entry,
                   flagsBefore |-> g_isleFlags]
        /\ IF entry = NoEntry /\ faults
           THEN /\ heap' = h1
                /\ actors' = [actors EXCEPT ![a].m_entry = entry]
                /\ crashed' = TRUE
                /\ UNCHANGED g_isleFlags
           ELSE /\ heap' = IF entry = NoEntry THEN h1
                          ELSE [h1 EXCEPT ![me.m_state].m_state[entry].m_unk0x10 = Unset32]
                /\ g_isleFlags' = g_isleFlags \ {"c_playMusic"}
                /\ actors' = [actors EXCEPT ![a].m_entry = entry, ![a].m_unk0x8c = -1]
                /\ UNCHANGED crashed
    /\ UNCHANGED <<registry, skateboard, memory, alreadyExists, firstCreated, created, lookup>>
    /\ GameFrame

\* The registry on its own.
NextRegistry ==
    \/ \E name \in StateNames : CreateStateCall(name)
    \/ \E name \in StateNames : OtherCreateState(name)
    \/ \E name \in StateNames : GetStateCall(name)

\* The registry, the actors' creation and the other actors that share it.
NextGame ==
    \/ \E a \in Actors, result \in {SUCCESS, FAILURE} : PizzaCreate(a, result)
    \/ \E a \in Actors : PizzaCreateState(a)
    \/ \E name \in StateNames : OtherCreateState(name)

\* The actors' creation and the start of the pizza mission.
NextPizza ==
    \/ \E a \in Actors, result \in {SUCCESS, FAILURE} : PizzaCreate(a, result)
    \/ \E a \in Actors, actorId \in ActorIds, faults \in BOOLEAN :
          FUN_10038220(a, actorId, faults)

\* =========================================================================
\* PizzaMissionState::GetState on its own
\* =========================================================================

\* Ids the entries of a loaded mission state carry, and ids asked for.
LookupIds == {0, 1, 2}

AskedIds == LookupIds \cup {3, 255}

NoGs == [called |-> FALSE, p_id |-> 0, ret |-> NoEntry, reads |-> {},
         before |-> [i \in EntryIndex |-> ZeroEntry]]

\* A mission state as a save file may have loaded it: any ids, in any order.
InitLookup ==
    /\ gs_state \in [EntryIndex -> {[m_id |-> d, m_unk0x10 |-> Unset32] : d \in LookupIds}]
    /\ gs = NoGs

IdleLookup ==
    /\ gs_state = [i \in EntryIndex |-> ZeroEntry]
    /\ gs = NoGs

\* GetState(p_id) is called on the mission state; the function assigns nothing.
MissionGetState(p_id) ==
    /\ LET r == PizzaMissionState_GetState(gs_state, p_id) IN
        gs' = [called |-> TRUE, p_id |-> p_id, ret |-> r.ret, reads |-> r.reads,
               before |-> gs_state]
    /\ UNCHANGED gs_state
    /\ LookupFrame

NextLookup == \E p_id \in AskedIds : MissionGetState(p_id)

\* =========================================================================
\* Path actor: HandleAnimationEnd (Helicopter::VTable0xd8)
\* =========================================================================

\* Animation ids of a session.
NumAnims == 3

\* Steps of path progress before a path ends.
MaxProgress == 2

AnimIds == 1..NumAnims

\* The result codes of an event handler.
Unhandled == 0

Handled == 1

NoHandled == [called |-> FALSE, anim |-> 0, ret |-> Unhandled, wasStarted |-> FALSE,
              changed |-> FALSE]

\* HandleAnimationEnd, as a mutant: every animation end is taken as the actor's own.
HandleAnimationEnd_AnyAnim(me, anim) ==
    [me |-> [me EXCEPT !.started = @ \ {anim},
                       !.state = IF @ = "Following" THEN "Idle" ELSE "Following",
                       !.progress = 0],
     ret |-> Handled]

\* HandleAnimationEnd(param): the end of an animation the actor started ends
\* the path it follows (or starts one, from Idle); any other is not handled.
HandleAnimationEnd(me, anim) ==
    IF anim \in me.started
    THEN [me |-> [me EXCEPT !.started = @ \ {anim},
                            !.state = IF @ = "Following" THEN "Idle" ELSE "Following",
                            !.progress = 0],
          ret |-> Handled]
    ELSE [me |-> me, ret |-> Unhandled]

InitActor ==
    /\ pathActor = [state |-> "Idle", started |-> {}, progress |-> 0]
    /\ handled = NoHandled

\* The actor starts a scripted animation.
StartAnimation(anim) ==
    /\ anim \notin pathActor.started
    /\ pathActor' = [pathActor EXCEPT !.started = @ \cup {anim}]
    /\ UNCHANGED handled
    /\ ActorFrame

\* Idle -> Following(path).
StartPath ==
    /\ pathActor.state = "Idle"
    /\ pathActor' = [pathActor EXCEPT !.state = "Following", !.progress = 0]
    /\ UNCHANGED handled
    /\ ActorFrame

\* The per-frame update advances the path; at its end the actor is Idle again.
AdvancePath ==
    /\ pathActor.state = "Following"
    /\ pathActor' = IF pathActor.progress < MaxProgress
                    THEN [pathActor EXCEPT !.progress = @ + 1]
                    ELSE [pathActor EXCEPT !.state = "Idle", !.progress = 0]
    /\ UNCHANGED handled
    /\ ActorFrame

\* Dispatch delivers an animation-end notification to the actor.
AnimationEnd(anim) ==
    /\ LET r == HandleAnimationEnd(pathActor, anim) IN
        /\ pathActor' = r.me
        /\ handled' = [called |-> TRUE, anim |-> anim, ret |-> r.ret,
                       wasStarted |-> anim \in pathActor.started,
                       changed |-> r.me # pathActor]
    /\ ActorFrame

NextActor ==
    \/ \E anim \in AnimIds : StartAnimation(anim)
    \/ StartPath
    \/ AdvancePath
    \/ \E anim \in AnimIds : AnimationEnd(anim)

\* =========================================================================
\* Specifications
\* =========================================================================

InitT == InitTickle /\ IdleSerialize /\ IdleGame /\ IdleLookup /\ InitActor

InitS == InitTickle /\ InitSerialize /\ IdleGame /\ IdleLookup /\ InitActor

InitG == InitTickle /\ IdleSerialize /\ InitGame /\ IdleLookup /\ InitActor

InitL == InitTickle /\ IdleSerialize /\ IdleGame /\ InitLookup /\ InitActor

InitA == InitTickle /\ IdleSerialize /\ IdleGame /\ IdleLookup /\ InitActor

\* The tickle manager and its clients.
SpecTickle == InitT /\ [][NextTickle]_vars

\* PizzaMissionState::Serialize over a LegoFile.
SpecSerialize == InitS /\ [][NextSerialize]_vars

\* The state registry and its callers.
SpecRegistry == InitG /\ [][NextRegistry]_vars

\* The registry and the creation of Pizza actors.
SpecGame == InitG /\ [][NextGame]_vars

\* The creation of Pizza actors and the start of the pizza mission.
SpecPizza == InitG /\ [][NextPizza]_vars

\* PizzaMissionState::GetState over loaded mission states.
SpecLookup == InitL /\ [][NextLookup]_vars

\* The path actor and the animation-end notifications it gets.
SpecActor == InitA /\ [][NextActor]_vars

\* =========================================================================
\* Properties
\* =========================================================================

\* C1: in every pass each client registered for the whole pass is ticked
\* exactly once (never twice while the pass runs, exactly once when it has
\* ended), whatever clients unregister themselves or are destroyed during the
\* pass, and no tick ever goes to a client that is unregistered or destroyed.
C1_TickOncePerPass ==
    /\ \A c \in wholePass : tickCount[c] <= 1
    /\ ~inPass => \A c \in wholePass : tickCount[c] = 1
    /\ inPass => \A c \in wholePass :
           tickCount[c] = (IF IndexOf(clients, c) <= pos THEN 1 ELSE 0)
    /\ ~tickedGone

\* C1 witness: a pass has ended in which a client unregistered itself (or was
\* destroyed) from inside its own hook and two clients registered for the
\* whole pass were each ticked once.
C1_Witness ==
    /\ ~inPass
    /\ selfRemoved
    /\ \E c \in unregistered : tickCount[c] = 1
    /\ Cardinality(wholePass) >= 2
    /\ \A c \in wholePass : tickCount[c] = 1


\* The calls a Serialize in mode op makes when it handles n entries.
ExpectedLog(op, n) == << Ev("base", -1) >> \o [k \in 1..n |-> Ev(op, k - 1)]

\* C2: a mission state saved with Serialize in write mode and loaded by
\* Serialize into a fresh mission state, reading the whole stream from its
\* start, gives the fresh state entries equal, field by field and index by
\* index, to the entries that were saved.
C2_RoundTrip ==
    (/\ ser_pc = "done"
     /\ IsReadMode(file)
     /\ intact
     /\ ser_start = 0)
    => \A i \in EntryIndex : Obj(ser_obj)[i] = origin[i]

\* C2 witness: populated entries, not all alike, have been saved and have come
\* back in a fresh state that held other values before.
C2_Witness ==
    /\ ser_pc = "done"
    /\ ser_obj = "loaded"
    /\ IsReadMode(file)
    /\ intact
    /\ origin = saved
    /\ saved[0] # saved[1]
    /\ saved[3].m_unk0x10 = Unset32
    /\ loaded = saved

\* The bytes the stream held at the call, past the read position of the call.
StreamBytes == Len(file.data) - ser_start

\* C5: Serialize in read mode on a stream shorter than 5 entries reads the
\* entries that are wholly there, leaves every other entry zero and returns a
\* result other than SUCCESS.
C5_TruncatedReported ==
    (/\ ser_pc = "done"
     /\ IsReadMode(file)
     /\ StreamBytes < NumEntries * EntryBytes)
    => /\ \A i \in EntryIndex :
            Obj(ser_obj)[i] = (IF (i + 1) * EntryBytes <= StreamBytes
                               THEN origin[i] ELSE ZeroEntry)
       /\ ser_ret # SUCCESS

\* C7: Serialize runs the base class first and then handles the entries
\* 0, 1, 2, 3, 4 in this order, each once and all five in read and in write
\* mode, the stream growing (or the read position moving) by exactly one
\* entry per turn; in any other mode it handles no entry.
C7_IndexOrder ==
    ser_pc # "idle" =>
        LET op == IF IsReadMode(file) THEN "read" ELSE "write"
            n == Len(ser_log) - 1
            all == IF IsReadMode(file) \/ IsWriteMode(file) THEN NumEntries ELSE 0
        IN /\ n >= 0
           /\ n <= all
           /\ ser_log = ExpectedLog(op, n)
           /\ ser_pc \in {"ret", "done"} => n = all
           /\ IsWriteMode(file) => Len(file.data) = ser_start + n * EntryBytes
           /\ (IsReadMode(file) /\ ~ser_short) => file.rpos = ser_start + n * EntryBytes
           /\ ~(IsReadMode(file) \/ IsWriteMode(file)) =>
                 file.rpos = 0 /\ Len(file.data) = ser_start

\* C7 witness: a Serialize in read mode has returned after reading the five
\* entries of a whole stream.
C7_Witness ==
    /\ ser_pc = "done"
    /\ IsReadMode(file)
    /\ ~ser_short
    /\ ser_log = ExpectedLog("read", NumEntries)
    /\ file.rpos = NumEntries * EntryBytes

\* C3: GetState(name) returns NULL as long as no CreateState(name) has
\* happened, and from the first CreateState(name) on it returns the object
\* that call made, whatever is created or looked up in between.
C3_GetStateStable ==
    /\ \A n \in StateNames : GameState_GetState(registry, n) = firstCreated[n]
    /\ lookup.name # "" => lookup.ret = lookup.first

\* C3 witness: a lookup has returned the first state created, after two other
\* names were created and a redundant CreateState was refused.
C3_Witness ==
    /\ lookup.name = "PizzaMissionState"
    /\ lookup.ret # NULL
    /\ lookup.ret = firstCreated["PizzaMissionState"]
    /\ Len(registry) = 3
    /\ registry[1].name = "PizzaMissionState"
    /\ alreadyExists

\* C4: GetState(p_id) reads only entries 0..4, returns NULL when no entry
\* carries p_id (after reading all five), returns the entry of the lowest
\* index that carries it otherwise (reading none past it), and leaves the
\* entries as they were.
C4_GetStateInBounds ==
    gs.called =>
        LET hits == {i \in EntryIndex : gs_state[i].m_id = gs.p_id} IN
        /\ gs.reads \subseteq EntryIndex
        /\ hits = {} => gs.ret = NoEntry /\ gs.reads = EntryIndex
        /\ hits # {} =>
              /\ gs.ret \in hits
              /\ \A i \in hits : gs.ret <= i
              /\ gs.reads = 0..gs.ret
        /\ gs_state = gs.before

\* C4 witness: the id asked for is carried by the entries 3 and 4 and by no
\* other, and the entry returned is 3.
C4_Witness ==
    /\ gs.called
    /\ gs.ret = 3
    /\ gs_state[4].m_id = gs.p_id
    /\ gs.reads = 0..3

\* C6: an animation-end event for an animation the actor did not start is
\* answered with the unhandled result 0 and changes nothing of the actor, be
\* it Idle or Following.
C6_ForeignAnimationIgnored ==
    (handled.called /\ ~handled.wasStarted)
    => handled.ret = Unhandled /\ ~handled.changed

\* C6 witness: a Following actor that started an animation has got the end of
\* another one and has not handled it.
C6_Witness ==
    /\ handled.called
    /\ ~handled.wasStarted
    /\ handled.ret = Unhandled
    /\ pathActor.state = "Following"
    /\ pathActor.started # {}
    /\ pathActor.progress > 0

\* C8: Pizza::Create returns what IsleActor::Create returned; on a failure it
\* calls neither the registry nor the world and leaves the actor's members as
\* they were (NULL, on an actor just constructed); on SUCCESS m_state and
\* m_act1state are both set.
C8_CreateResult ==
    /\ created.actor # 0 =>
        /\ created.ret = created.result
        /\ created.result # SUCCESS =>
              created.trace = << "IsleActor::Create" >> /\ ~created.changed
        /\ created.result = SUCCESS =>
              /\ actors[created.actor].m_state # NULL
              /\ actors[created.actor].m_act1state # NULL
              /\ created.trace[Len(created.trace)] = "Find"
    /\ \A a \in Actors :
          actors[a].m_state = NULL =>
              actors[a].m_act1state = NULL /\ actors[a].m_skateboard = NULL

\* C8 witness: Create has failed on an actor just constructed, after it
\* succeeded on another actor.
C8_Witness ==
    /\ created.actor # 0
    /\ created.result = FAILURE
    /\ created.ret = FAILURE
    /\ actors[created.actor] = Pizza_ctor
    /\ \E a \in Actors : actors[a].m_state # NULL /\ actors[a].m_act1state # NULL

\* C9: with every Pizza actor creating its states only after a failed lookup,
\* the registry never reports AlreadyExists, holds at most one state per name
\* (one PizzaMissionState and one Act1State object at most), and every actor's
\* m_state and m_act1state are the two registered objects.
C9_OneStatePerName ==
    /\ ~alreadyExists
    /\ \A n \in StateNames :
          Cardinality({k \in 1..Len(registry) : registry[k].name = n}) <= 1
    /\ \A n \in StateNames :
          Cardinality({k \in 1..Len(heap) : heap[k].class = n}) <= 1
    /\ \A a \in Actors :
          actors[a].m_state # NULL =>
              /\ actors[a].m_state = GameState_GetState(registry, "PizzaMissionState")
              /\ actors[a].m_act1state = GameState_GetState(registry, "Act1State")
              /\ heap[actors[a].m_state].class = "PizzaMissionState"
              /\ heap[actors[a].m_act1state].class = "Act1State"

\* C9 witness: two actors have been created after another actor made its own
\* state, and both refer to the same two objects.
C9_Witness ==
    /\ Len(heap) = 3
    /\ heap[1].class = "HelicopterState"
    /\ \A a \in Actors : actors[a].m_state # NULL
    /\ \A a, b \in Actors :
          /\ actors[a].m_state = actors[b].m_state
          /\ actors[a].m_act1state = actors[b].m_act1state

\* C10: whenever FUN_10038220 has run on an actor whose Create succeeded, the
\* entry GetState gave it for the current actor id is not NULL and nothing was
\* written through a null pointer; m_unk0x0c is 1, m_unk0x018 is 3, m_unk0x8c
\* is -1, and of g_isleFlags only c_playMusic has been cleared.
C10_EntryNeverNull ==
    fun.actor # 0 =>
        LET me == actors[fun.actor] IN
        /\ fun.entry # NoEntry
        /\ ~crashed
        /\ heap[me.m_state].m_unk0x0c = 1
        /\ heap[me.m_act1state].m_unk0x018 = 3
        /\ me.m_unk0x8c = -1
        /\ g_isleFlags = fun.flagsBefore \ {"c_playMusic"}

=============================================================================
